---- MODULE Spec2Model ----
(***************************************************************************)
(* Model of cachi2/core/package_managers/rpm.py: the lockfile model        *)
(* (Package, Arch, RpmsLock), RpmsLock.from_file, RpmsLock.download and     *)
(* fetch_rpm_source, together with the two collaborators the code drives:  *)
(* the filesystem (open, os.makedirs) and the bounded-concurrency fetcher  *)
(* (asyncio.run(async_download_files(files, concurrency_limit))).          *)
(*                                                                         *)
(* Strings that the code takes apart are modelled by their parts: a path   *)
(* or a url is the sequence of its "/"-separated segments, so that         *)
(* os.path.join is concatenation, os.path.basename the last segment and    *)
(* os.path.dirname all but the last segment.                               *)
(***************************************************************************)
EXTENDS Naturals, Sequences, FiniteSets, TLC

\* ---------------------------------------------------------------- bounds
\* Most architecture groups of a lockfile document.
MaxArches == 2
\* Most package entries of a lockfile document (packages and sources of all
\* its architecture groups together).
MaxEntries == 2
\* get_config().concurrency_limit: the fetcher's ceiling on simultaneous
\* transfers of one batch.
concurrency_limit == 2

\* ------------------------------------------------------------ path helpers
\* os.path.basename(p): what follows the last "/".
basename(p) == p[Len(p)]

\* os.path.dirname(p): what precedes the last "/".
dirname(p) == SubSeq(p, 1, Len(p) - 1)

\* os.path.join(a, b, ...): the segments of a followed by those of b.
join(a, b) == a \o b

\* The path itself and every ancestor of it, as os.makedirs walks them.
Prefixes(p) == {SubSeq(p, 1, k) : k \in 1 .. Len(p)}

\* ------------------------------------------------------------- the inputs
\* request.output_dir.
output_dir == <<"out">>

\* class Package(BaseModel): repoid, url, checksum, size.  The checksum
\* "<alg>:<hex>" is kept as the pair of its two parts.
Package(repoid, url, checksum, size) ==
    [repoid |-> repoid, url |-> url, checksum |-> checksum, size |-> size]

\* The package entries the lockfile documents are drawn from.  P1 and P2
\* are two urls with the same file name in the same repository; P3 is the
\* url of P1 listed under another repository id.
PackageUniverse ==
    { Package("updates", <<"a.example", "x.rpm">>, <<"sha256", "d1">>, 1),
      Package("updates", <<"b.example", "x.rpm">>, <<"sha256", "d1">>, 1),
      Package("updates-source", <<"a.example", "x.rpm">>, <<"sha256", "d1">>, 1) }

ArchNames == {"x86_64", "aarch64"}

\* List[Package] of at most n entries.
PackageLists(n) == UNION {[1 .. k -> PackageUniverse] : k \in 0 .. n}

\* class Arch(BaseModel): arch, packages, sources; at most n entries.
Arch(n) ==
    { [arch |-> a, packages |-> ps, sources |-> ss] :
        a \in ArchNames,
        ps \in PackageLists(n),
        ss \in PackageLists(n) }

Entries(g) == Len(g.packages) + Len(g.sources)

\* List[Arch] of exactly k groups holding at most n entries together.
RECURSIVE ArchLists(_, _)
ArchLists(k, n) ==
    IF k = 0
    THEN {<<>>}
    ELSE UNION { {<<g>> \o rest : rest \in ArchLists(k - 1, n - Entries(g))} :
                 g \in {h \in Arch(n) : Entries(h) <= n} }

\* class RpmsLock(BaseModel): the documents that pass validation.  The
\* three marker fields take no part in download and are held fixed.
RpmsLock ==
    { [lockfileVersion |-> 1, lockfileVendor |-> "redhat",
       lockfileType |-> "rpm", arches |-> as] :
        as \in UNION {ArchLists(k, MaxEntries) : k \in 0 .. MaxArches} }

NoLock == [arches |-> <<>>]

\* What open("rpms.lock.yaml") finds in the working directory.
LockfileInputs ==
    { [kind |-> "absent", doc |-> NoLock],
      [kind |-> "invalid_yaml", doc |-> NoLock],
      [kind |-> "invalid_schema", doc |-> NoLock] }
    \cup { [kind |-> "valid", doc |-> d] : d \in RpmsLock }

\* What a server returns for a url: the mirror b.example serves other
\* bytes than the lockfile declares.
Served(url) ==
    IF url[1] = "b.example"
    THEN [size |-> 2, digest |-> "d2"]
    ELSE [size |-> 1, digest |-> "d1"]

Empty == [x \in {} |-> <<>>]

\* Regular files found under the output directory before the run: none, or
\* a stray regular file where the sources tree is to go.
InitialDisks ==
    { Empty,
      [p \in {join(output_dir, <<"deps", "rpm", "sources">>)} |->
          [size |-> 0, digest |-> "d0"]] }

\* ---------------------------------------------------------------- state
VARIABLES
    lockfile,     \* the lockfile as found in the working directory
    pc,           \* position of fetch_rpm_source
    rpmslock,     \* the parsed RpmsLock
    arch_i,       \* index of `arch` in `for arch in self.arches`
    kind,         \* "packages" or "sources": which half of the loop body
    files,        \* the dict url -> dest being built or just built
    dirs,         \* directories on disk
    disk,         \* regular files on disk: path -> content
    calls,        \* the mappings the fetcher was invoked with, in order
    inflight,     \* indices of calls whose asyncio.run has not returned
    tasks,        \* transfers of the in-flight batches not yet finished
    error,        \* the exception that ended the run, or "none"
    components,   \* components: list[Component]
    output,       \* the RequestOutput returned, or "none"
    trace         \* the resolver states passed through, in order

vars == <<lockfile, pc, rpmslock, arch_i, kind, files, dirs, disk, calls,
          inflight, tasks, error, components, output, trace>>

\* ------------------------------------------------------ RpmsLock.download
\* dest of one package entry (rpm.py lines 48-50 and 58-66).
dest(archname, k, pkg) ==
    IF k = "packages"
    THEN join(output_dir, <<"deps", "rpm", archname, pkg.repoid, basename(pkg.url)>>)
    ELSE join(output_dir,
              <<"deps", "rpm", "sources", archname, pkg.repoid, basename(pkg.url)>>)

\* The call os.makedirs(os.path.dirname(dest), exist_ok=True) left out: no
\* directory is created.
makedirs_skipped(ds, fs, path) == [dirs |-> ds, raised |-> FALSE]

\* os.makedirs(path, exist_ok=True): create the missing ancestors and the
\* leaf; an existing directory is accepted, a regular file on the way
\* raises (FileExistsError for the leaf, NotADirectoryError above it) after
\* the ancestors before it were created.
makedirs(ds, fs, path) ==
    LET blocking == {q \in Prefixes(path) : q \in DOMAIN fs}
    IN  IF blocking = {}
        THEN [dirs |-> ds \cup Prefixes(path), raised |-> FALSE]
        ELSE [dirs |-> ds \cup {q \in Prefixes(path) :
                                  \A b \in blocking : Len(q) < Len(b)},
              raised |-> TRUE]

\* files[pkg.url] = dest
setitem(f, key, value) ==
    [x \in DOMAIN f \cup {key} |-> IF x = key THEN value ELSE f[x]]

\* The loop `for pkg in arch.packages` (or arch.sources) over the first n
\* entries: the dict built and the directories made so far.
RECURSIVE build_files(_, _, _, _, _, _)
build_files(pkgs, n, archname, k, ds, fs) ==
    IF n = 0
    THEN [files |-> Empty, dirs |-> ds, raised |-> FALSE]
    ELSE LET prev == build_files(pkgs, n - 1, archname, k, ds, fs)
             d    == dest(archname, k, pkgs[n])
             made == makedirs(prev.dirs, fs, dirname(d))
         IN  IF prev.raised
             THEN prev
             ELSE [files |-> setitem(prev.files, pkgs[n].url, d),
                   dirs |-> made.dirs,
                   raised |-> made.raised]

\* The list the loop body is at: arch.packages or arch.sources.
current_list ==
    IF kind = "packages"
    THEN rpmslock.arches[arch_i].packages
    ELSE rpmslock.arches[arch_i].sources

\* Control moves past a returned fetcher call: to the sources half, to the
\* next architecture group, or out of download.
advance ==
    IF kind = "packages"
    THEN /\ pc' = "build"
         /\ kind' = "sources"
         /\ arch_i' = arch_i
    ELSE IF arch_i < Len(rpmslock.arches)
    THEN /\ pc' = "build"
         /\ kind' = "packages"
         /\ arch_i' = arch_i + 1
    ELSE /\ pc' = "return"
         /\ kind' = kind
         /\ arch_i' = arch_i

\* The fetcher call is made without waiting for it to return.
asyncio_run_nowait == advance

\* asyncio.run(...) blocks the caller until the batch has ended.
asyncio_run ==
    /\ pc' = "wait"
    /\ UNCHANGED <<arch_i, kind>>

\* An exception leaves download and fetch_rpm_source: neither has a handler.
raise(exc) ==
    /\ error' = exc
    /\ pc' = "raised"
    /\ UNCHANGED <<arch_i, kind>>

\* The fetcher's failure caught around asyncio.run: recorded, and the loop
\* goes on with the next mapping.
fetcher_failure_swallowed(exc) ==
    /\ error' = exc
    /\ advance

\* The fetcher's failure comes out of asyncio.run as it is, and nothing in
\* download or fetch_rpm_source catches it.
fetcher_failure(exc) == raise(exc)

\* --------------------------------------------------------------- actions
Init ==
    /\ lockfile \in LockfileInputs
    /\ disk \in InitialDisks
    /\ dirs = {output_dir}
    /\ pc = "open"
    /\ rpmslock = NoLock
    /\ arch_i = 1
    /\ kind = "packages"
    /\ files = Empty
    /\ calls = <<>>
    /\ inflight = {}
    /\ tasks = {}
    /\ error = "none"
    /\ components = <<>>
    /\ output = "none"
    /\ trace = <<"LocateLockfile">>

\* from_file, open(lockfile_path): the file is there.
OpenLockfile ==
    /\ pc = "open"
    /\ lockfile.kind # "absent"
    /\ pc' = "parse"
    /\ trace' = Append(trace, "ParseLockfile")
    /\ UNCHANGED <<lockfile, rpmslock, arch_i, kind, files, dirs, disk, calls,
                   inflight, tasks, error, components, output>>

\* from_file, open(lockfile_path): the file is missing.
OpenMissing ==
    /\ pc = "open"
    /\ lockfile.kind = "absent"
    /\ raise("FileNotFoundError")
    /\ UNCHANGED <<lockfile, rpmslock, files, dirs, disk, calls, inflight,
                   tasks, components, output, trace>>

\* from_file, yaml.safe_load(f) and cls(**lockfile) on a valid document,
\* then the entry into download.
ParseLockfile ==
    /\ pc = "parse"
    /\ lockfile.kind = "valid"
    /\ rpmslock' = lockfile.doc
    /\ arch_i' = 1
    /\ kind' = "packages"
    /\ pc' = IF Len(lockfile.doc.arches) = 0 THEN "return" ELSE "build"
    /\ trace' = Append(trace, "Download")
    /\ UNCHANGED <<lockfile, files, dirs, disk, calls, inflight, tasks, error,
                   components, output>>

\* from_file: yaml.safe_load raises on text that is no YAML, cls(**lockfile)
\* on a document that fails validation.
ParseFails ==
    /\ pc = "parse"
    /\ lockfile.kind \in {"invalid_yaml", "invalid_schema"}
    /\ raise(IF lockfile.kind = "invalid_yaml" THEN "YAMLError" ELSE "ValidationError")
    /\ UNCHANGED <<lockfile, rpmslock, files, dirs, disk, calls, inflight,
                   tasks, components, output, trace>>

\* download: files = {} and the loop over arch.packages or arch.sources,
\* every os.makedirs succeeding.
BuildFiles ==
    /\ pc = "build"
    /\ LET b == build_files(current_list, Len(current_list),
                            rpmslock.arches[arch_i].arch, kind, dirs, disk)
       IN  /\ ~b.raised
           /\ files' = b.files
           /\ dirs' = b.dirs
    /\ pc' = "call"
    /\ UNCHANGED <<lockfile, rpmslock, arch_i, kind, disk, calls, inflight,
                   tasks, error, components, output, trace>>

\* download: the same loop, ended by os.makedirs raising (FileExistsError or
\* NotADirectoryError, both OSError).
BuildFilesRaises ==
    /\ pc = "build"
    /\ LET b == build_files(current_list, Len(current_list),
                            rpmslock.arches[arch_i].arch, kind, dirs, disk)
       IN  /\ b.raised
           /\ files' = b.files
           /\ dirs' = b.dirs
    /\ raise("OSError")
    /\ UNCHANGED <<lockfile, rpmslock, disk, calls, inflight, tasks,
                   components, output, trace>>

\* download: asyncio.run(async_download_files(files, concurrency_limit))
\* is entered; one transfer per url of the mapping is queued.
CallFetcher ==
    /\ pc = "call"
    /\ calls' = Append(calls, files)
    /\ inflight' = inflight \cup {Len(calls) + 1}
    /\ tasks' = tasks \cup { [batch |-> Len(calls) + 1, url |-> u, st |-> "queued"] :
                             u \in DOMAIN files }
    /\ asyncio_run
    /\ UNCHANGED <<lockfile, rpmslock, files, dirs, disk, error, components,
                   output, trace>>

\* The fetcher starts a queued transfer while fewer than concurrency_limit
\* transfers of its batch are active.
StartTransfer(t) ==
    /\ t \in tasks
    /\ t.st = "queued"
    /\ Cardinality({a \in tasks : a.batch = t.batch /\ a.st = "active"})
          < concurrency_limit
    /\ tasks' = (tasks \ {t}) \cup {[t EXCEPT !.st = "active"]}
    /\ UNCHANGED <<lockfile, pc, rpmslock, arch_i, kind, files, dirs, disk,
                   calls, inflight, error, components, output, trace>>

\* An active transfer completes: what the server returned is at its
\* destination path.
FinishTransfer(t) ==
    /\ t \in tasks
    /\ t.st = "active"
    /\ dirname(calls[t.batch][t.url]) \in dirs
    /\ disk' = setitem(disk, calls[t.batch][t.url], Served(t.url))
    /\ tasks' = tasks \ {t}
    /\ UNCHANGED <<lockfile, pc, rpmslock, arch_i, kind, files, dirs, calls,
                   inflight, error, components, output, trace>>

\* An active transfer fails (network error, bad status, timeout, or no
\* directory to write into): the fetcher gives up the batch, its other
\* transfers are cancelled, and asyncio.run raises in download.
FailTransfer(t) ==
    /\ t \in tasks
    /\ t.st = "active"
    /\ pc = "wait"
    /\ tasks' = {a \in tasks : a.batch # t.batch}
    /\ inflight' = inflight \ {t.batch}
    /\ fetcher_failure("FetchError")
    /\ UNCHANGED <<lockfile, rpmslock, files, dirs, disk, calls, components,
                   output, trace>>

\* Every transfer of the batch has completed: asyncio.run returns and the
\* loop goes on.
FetcherReturns ==
    /\ pc = "wait"
    /\ inflight # {}
    /\ \A t \in tasks : t.batch \notin inflight
    /\ inflight' = {}
    /\ advance
    /\ UNCHANGED <<lockfile, rpmslock, files, dirs, disk, calls, tasks, error,
                   components, output, trace>>

\* fetch_rpm_source: return RequestOutput.from_obj_list(components=components).
Return ==
    /\ pc = "return"
    /\ output' = [components |-> components]
    /\ pc' = "done"
    /\ trace' = Append(trace, "Done")
    /\ UNCHANGED <<lockfile, rpmslock, arch_i, kind, files, dirs, disk, calls,
                   inflight, tasks, error, components>>

Next ==
    \/ OpenLockfile
    \/ OpenMissing
    \/ ParseLockfile
    \/ ParseFails
    \/ BuildFiles
    \/ BuildFilesRaises
    \/ CallFetcher
    \/ \E t \in tasks : StartTransfer(t)
    \/ \E t \in tasks : FinishTransfer(t)
    \/ \E t \in tasks : FailTransfer(t)
    \/ FetcherReturns
    \/ Return

Spec == Init /\ [][Next]_vars

\* ------------------------------------------------- the entries of a run
Kinds == {"packages", "sources"}

\* arch.packages or arch.sources of the i-th architecture group.
list_of(i, k) ==
    IF k = "packages" THEN rpmslock.arches[i].packages ELSE rpmslock.arches[i].sources

\* Every package entry of the parsed lockfile, by its place <<i, k, j>>.
EntryPositions ==
    UNION { {<<i, k, j>> : j \in 1 .. Len(list_of(i, k))} :
            i \in 1 .. Len(rpmslock.arches), k \in Kinds }

entry_pkg(e) == list_of(e[1], e[2])[e[3]]

entry_arch(e) == rpmslock.arches[e[1]].arch

\* The destination path download derives for the entry at e.
entry_dest(e) == dest(entry_arch(e), e[2], entry_pkg(e))

\* DEFAULT_PACKAGE_DIR: the package output directory under output_dir.
package_dir == join(output_dir, <<"deps", "rpm">>)

\* Digest algorithms the verifier accepts.
SupportedAlgorithms == {"md5", "sha1", "sha256", "sha512"}

\* The three checks of the integrity verifier on one artifact: size,
\* algorithm prefix, content digest.
matches_declared(content, pkg) ==
    /\ content.size = pkg.size
    /\ pkg.checksum[1] \in SupportedAlgorithms
    /\ content.digest = pkg.checksum[2]

\* ---------------------------------------------------------------- claims

\* C1: the destination paths download computes are pairwise distinct over
\* all distinct package entries of the run (entries that differ in their
\* architecture, their kind or one of their fields), and no two urls handed
\* to the fetcher, in one batch or across batches, share a destination path.
C1_DestinationsPairwiseDistinct ==
    /\ \A e1 \in EntryPositions : \A e2 \in EntryPositions :
          <<entry_arch(e1), e1[2], entry_pkg(e1)>> # <<entry_arch(e2), e2[2], entry_pkg(e2)>>
             => entry_dest(e1) # entry_dest(e2)
    /\ \A b1 \in 1 .. Len(calls) : \A b2 \in 1 .. Len(calls) :
          \A u1 \in DOMAIN calls[b1] : \A u2 \in DOMAIN calls[b2] :
             <<b1, u1>> # <<b2, u2>> => calls[b1][u1] # calls[b2][u2]

\* C2: a run that ends with a successful result has passed integrity
\* verification: no artifact on disk at an entry's destination differs from
\* that entry's declared size or checksum.
C2_SuccessImpliesVerified ==
    pc = "done" =>
        \A e \in EntryPositions :
            entry_dest(e) \in DOMAIN disk
               => matches_declared(disk[entry_dest(e)], entry_pkg(e))

\* C3: a run that reaches Done has passed through LocateLockfile,
\* ParseLockfile, Download, Verify, ExtractMetadata and Done, in that order,
\* once each.
C3_StatesInOrder ==
    pc = "done" =>
        trace = <<"LocateLockfile", "ParseLockfile", "Download", "Verify",
                  "ExtractMetadata", "Done">>

\* C4: when the fetcher gives up a batch (the batch ends with transfers
\* outstanding), the run ends there with the fetcher's own failure: no later
\* batch is started, the failure is not replaced, and no RequestOutput is
\* returned.
C4_FetcherFailureIsFatal ==
    [][ /\ (\E t \in tasks : t.batch \in inflight /\ t.batch \notin inflight')
           => (error' = "FetchError" /\ pc' = "raised" /\ output' = "none")
        /\ error = "FetchError"
           => (calls' = calls /\ pc' = "raised" /\ error' = error /\ output' = "none")
      ]_vars

\* C4 witness: the fetcher failed while entries of the lockfile had not yet
\* been handed to it, and the run is over without an output.
C4_Witness ==
    /\ pc = "raised"
    /\ error = "FetchError"
    /\ output = "none"
    /\ Len(calls) < 2 * Len(rpmslock.arches)
    /\ \E e \in EntryPositions :
          \A b \in 1 .. Len(calls) : entry_pkg(e).url \notin DOMAIN calls[b]

C6_EveryEntryHandedOver ==
    pc \in {"return", "done"} =>
        \A e \in EntryPositions :
            \E b \in 1 .. Len(calls) :
                /\ entry_pkg(e).url \in DOMAIN calls[b]
                /\ calls[b][entry_pkg(e).url] = entry_dest(e)

\* C7: when the fetcher is invoked, the parent directory of every
\* destination of its mapping exists already; and the directory creation
\* fails only on a regular file in the way, never on a directory that exists.
C7_ParentsExistAtCall ==
    [][ /\ calls' # calls
           => \A u \in DOMAIN calls'[Len(calls')] :
                 dirname(calls'[Len(calls')][u]) \in dirs
        /\ (pc = "build" /\ pc' = "raised")
           => \E j \in 1 .. Len(current_list) :
                 \E q \in Prefixes(dirname(dest(rpmslock.arches[arch_i].arch, kind,
                                                current_list[j]))) :
                    q \in DOMAIN disk
      ]_vars

\* C7 witness: the fetcher is at work on a mapping of two destinations in
\* one directory, which the loop therefore created twice.
C7_Witness ==
    /\ pc = "wait"
    /\ Len(current_list) = 2
    /\ Cardinality(DOMAIN calls[Len(calls)]) = 2
    /\ dirname(dest(rpmslock.arches[arch_i].arch, kind, current_list[1]))
          = dirname(dest(rpmslock.arches[arch_i].arch, kind, current_list[2]))
    /\ \A u \in DOMAIN calls[Len(calls)] : dirname(calls[Len(calls)][u]) \in dirs

\* C8: with the lockfile absent the run aborts with the package-rejected
\* failure, having created no directory, written no file and never invoked
\* the fetcher.
C8_MissingLockfileRejected ==
    (lockfile.kind = "absent" /\ pc # "open") =>
        /\ pc = "raised"
        /\ error = "PackageRejected"
        /\ dirs = {output_dir}
        /\ disk \in InitialDisks
        /\ calls = <<>>

\* C9: the fetch plan maps every url it holds to
\* <package output dir>/<arch>/<repoid>/<basename of the url> of an entry,
\* binary or source, with that url.
C9_PlanUnderPackageDir ==
    \A b \in 1 .. Len(calls) : \A u \in DOMAIN calls[b] :
        \E e \in EntryPositions :
            /\ entry_pkg(e).url = u
            /\ calls[b][u] = join(package_dir,
                                  <<entry_arch(e), entry_pkg(e).repoid, basename(u)>>)

\* C10: the components returned by a successful fetch are one per binary
\* package entry of the lockfile, and none for a source entry.
C10_OneComponentPerBinary ==
    pc = "done" =>
        Len(output.components) = Cardinality({e \in EntryPositions : e[2] = "packages"})

====
